---- MODULE Spec2Model ----
(***************************************************************************)
(* The A2A JSON-RPC route adapter of src/mastra/routes/a2aAgentRouter.ts:  *)
(* one POST handler that parses a body, validates a JSON-RPC envelope,     *)
(* flattens the inbound messages, invokes an agent and serialises the      *)
(* reply as a task with artifacts and history.                             *)
(*                                                                         *)
(* JavaScript values are records [t, v]: t is the type tag and v the       *)
(* payload, a sequence of symbols for a string.  Message texts are         *)
(* sequences of characters; fixed literals and error messages are          *)
(* sequences of words.                                                     *)
(***************************************************************************)
EXTENDS Integers, Sequences, FiniteSets, TLC

\* Bounds of the model.
MaxParts == 2
MaxMsgs == 2
MaxTools == 2
MaxResults == 2

----------------------------------------------------------------------------
\* JavaScript values.

Undef == [t |-> "undef", v |-> <<>>]
Null == [t |-> "null", v |-> <<>>]
Str(s) == [t |-> "str", v |-> s]
Num(d) == [t |-> "num", v |-> d]
\* A plain object, carried by the sequence of its keys (each key maps to 1).
Obj(keys) == [t |-> "obj", v |-> keys]
\* An array, carried by the sequence of its elements.
Arr(items) == [t |-> "arr", v |-> items]

\* ToBoolean: undefined, null, '' and 0 are falsy; objects and arrays truthy.
Truthy(x) ==
  CASE x.t = "undef" -> FALSE
    [] x.t = "null" -> FALSE
    [] x.t = "str" -> x.v # <<>>
    [] x.t = "num" -> x.v # <<"0">>
    [] OTHER -> TRUE

\* x || y
OrElse(x, y) == IF Truthy(x) THEN x ELSE y

\* typeof x
TypeOf(x) ==
  CASE x.t = "undef" -> "undefined"
    [] x.t = "str" -> "string"
    [] x.t = "num" -> "number"
    [] OTHER -> "object"

\* Array.isArray(x)
IsArray(x) == x.t = "arr"

RECURSIVE JoinWith(_, _)
\* Array.prototype.join over a sequence of strings.
JoinWith(strs, sep) ==
  IF strs = <<>> THEN <<>>
  ELSE IF Len(strs) = 1 THEN strs[1]
  ELSE strs[1] \o sep \o JoinWith(Tail(strs), sep)

\* JSON.stringify of null, a plain object {k: 1, ...} or an array of strings.
JSONStringify(x) ==
  CASE x.t = "null" -> <<"n", "u", "l", "l">>
    [] x.t = "obj" ->
         <<"{">> \o JoinWith([i \in 1..Len(x.v) |-> <<"\"", x.v[i], "\"", ":", "1">>], <<",">>) \o <<"}">>
    [] x.t = "arr" ->
         <<"[">> \o JoinWith([i \in 1..Len(x.v) |-> <<"\"">> \o x.v[i] \o <<"\"">>], <<",">>) \o <<"]">>
    [] OTHER -> <<>>

IsSpace(c) == c \in {" ", "\n", "\t"}

RECURSIVE TrimStart(_)
TrimStart(s) == IF s # <<>> /\ IsSpace(Head(s)) THEN TrimStart(Tail(s)) ELSE s

RECURSIVE TrimEnd(_)
TrimEnd(s) ==
  IF s # <<>> /\ IsSpace(s[Len(s)]) THEN TrimEnd(SubSeq(s, 1, Len(s) - 1)) ELSE s

\* String.prototype.trim
Trim(s) == TrimEnd(TrimStart(s))

\* String.prototype.includes on a message given as a sequence of words.
Includes(msg, word) == \E i \in 1..Len(msg) : msg[i] = word

\* error.message?.includes(word)
MessageIncludes(error, word) ==
  error.message.t = "str" /\ Includes(error.message.v, word)

\* The k-th value randomUUID() returns within one run of the handler.
RandomUUID(k) == Str(<<"uuid">> \o [i \in 1..k |-> "'"])

----------------------------------------------------------------------------
\* Conversion of the inbound A2A messages to the agent's format.

\* The callback of msg.parts.map: the text fragment one part contributes.
PartFragment(part) ==
  IF part.kind = Str(<<"text">>) THEN OrElse(part.text, Str(<<>>))
  ELSE IF part.kind = Str(<<"data">>) THEN
    IF TypeOf(part.data) = "string" THEN part.data
    ELSE IF TypeOf(part.data) = "object" THEN Str(JSONStringify(part.data))
    ELSE Str(<<>>)
  ELSE Str(<<>>)

\* The callback of .filter: text.length > 0
NonEmptyFragment(x) == x.t = "str" /\ Len(x.v) > 0

\* Mutant of FlattenParts: the empty fragments are not filtered out.
FlattenPartsNoFilter(parts) ==
  JoinWith([i \in 1..Len(parts) |-> PartFragment(parts[i]).v], <<"\n">>)

\* msg.parts.map(...).filter(...).join('\n')
FlattenParts(parts) ==
  LET frags == SelectSeq([i \in 1..Len(parts) |-> PartFragment(parts[i])], NonEmptyFragment)
  IN JoinWith([i \in 1..Len(frags) |-> frags[i].v], <<"\n">>)

\* The callback of messagesList.map that builds mastraMessages.
ToMastraMessage(msg) ==
  IF ~Truthy(msg.parts) \/ ~IsArray(msg.parts) THEN
    [role |-> OrElse(msg.role, Str(<<"user">>)),
     content |-> OrElse(msg.content, Str(<<>>))]
  ELSE
    [role |-> OrElse(msg.role, Str(<<"user">>)),
     content |-> OrElse(Str(FlattenParts(msg.parts.v)), OrElse(msg.content, Str(<<>>)))]

\* Mutant of EmptyContent: the content is not trimmed.
EmptyContentNoTrim(m) == ~Truthy(m.content)

\* The callback of mastraMessages.every in the content validation.
EmptyContent(m) == ~Truthy(m.content) \/ Trim(m.content.v) = <<>>

----------------------------------------------------------------------------
\* The JSON documents of the wire format.

\* A request body that is a JSON object; an absent key is Undef.
Body(jsonrpc, id, method, params) ==
  [t |-> "body", jsonrpc |-> jsonrpc, id |-> id, method |-> method, params |-> params]

\* body = {} of the parse-error branch
EmptyObject == Body(Undef, Undef, Undef, Undef)

\* Object.keys(body) for the bodies of the model.
Keys(body) ==
  IF body.t = "body"
  THEN {k \in {"jsonrpc", "id", "method", "params"} : body[k] # Undef}
  ELSE {}

\* Mutant of BodyIsEmpty: the Object.keys test is left out.
BodyIsEmptyNoKeys(body) == ~Truthy(body)

\* !body || Object.keys(body).length === 0
BodyIsEmpty(body) == ~Truthy(body) \/ Cardinality(Keys(body)) = 0

Params(message, messages, contextId, taskId) ==
  [t |-> "params", message |-> message, messages |-> messages,
   contextId |-> contextId, taskId |-> taskId]

\* The property k that destructuring reads from params.
ParamsField(p, k) == IF p.t = "params" THEN p[k] ELSE Undef

Msg(role, parts, content, messageId, taskId) ==
  [t |-> "msg", role |-> role, parts |-> parts, content |-> content,
   messageId |-> messageId, taskId |-> taskId, metadata |-> Undef]

Part(kind, text, data, file_url) ==
  [kind |-> kind, text |-> text, data |-> data, file_url |-> file_url]

\* { kind: 'text', text, data: null, file_url: null }
TextPart(text) == Part(Str(<<"text">>), text, Null, Null)

\* The message object of role 'agent' that carries the reply.
AgentMessage(text, messageId, taskId) ==
  [kind |-> Str(<<"message">>), role |-> Str(<<"agent">>), parts |-> <<TextPart(text)>>,
   messageId |-> messageId, taskId |-> taskId, metadata |-> Null]

\* c.json(body, status)
JsonResponse(body, status) == [status |-> status, body |-> body]

\* No response written yet.
NoResponse == JsonResponse(Undef, 0)

\* Mutant of ErrorBody: the id of the request is not echoed.
ErrorBodyNullId(id, code, message) ==
  [jsonrpc |-> Str(<<"2.0">>), id |-> Null, error |-> [code |-> code, message |-> message]]

\* The body of an error response of the validation.
ErrorBody(id, code, message) ==
  [jsonrpc |-> Str(<<"2.0">>), id |-> id, error |-> [code |-> code, message |-> message]]

\* The success response to an empty body.
PlaceholderResponse ==
  JsonResponse(
    [jsonrpc |-> Str(<<"2.0">>),
     id |-> Null,
     result |->
       [id |-> RandomUUID(1),
        contextId |-> RandomUUID(2),
        status |->
          [state |-> Str(<<"completed">>),
           message |-> AgentMessage(Str(<<"No", "message", "provided">>), RandomUUID(3), Null)],
        artifacts |-> <<>>,
        history |-> <<>>,
        kind |-> Str(<<"task">>)],
     error |-> Null],
    200)

----------------------------------------------------------------------------
\* The catch block of the handler.

\* Mutant of StackField: the stack is withheld in development only.
StackFieldInverted(error, nodeEnv) == IF nodeEnv # "development" THEN error.stack ELSE Undef

\* process.env.NODE_ENV === 'development' ? error.stack : undefined
StackField(error, nodeEnv) == IF nodeEnv = "development" THEN error.stack ELSE Undef

ErrorCode(error) ==
  IF MessageIncludes(error, "Agent") THEN -32602 ELSE -32603

ErrorMessage(error) ==
  IF MessageIncludes(error, "Agent") THEN error.message
  ELSE IF MessageIncludes(error, "tool") \/ MessageIncludes(error, "function")
  THEN Str(<<"Agent", "execution", "error:">> \o error.message.v)
  ELSE Str(<<"Internal", "error">>)

CatchResponse(error, reqId, nodeEnv) ==
  JsonResponse(
    [jsonrpc |-> Str(<<"2.0">>),
     id |-> reqId,
     error |->
       [code |-> ErrorCode(error),
        message |-> ErrorMessage(error),
        data |-> [details |-> error.message, stack |-> StackField(error, nodeEnv)]]],
    500)

\* Mutant of MessagesList: the messages array is preferred to the message.
MessagesListArrayFirst(params) ==
  LET message == ParamsField(params, "message")
      messages == ParamsField(params, "messages")
  IN IF Truthy(messages) /\ IsArray(messages) THEN messages.v
     ELSE IF Truthy(message) THEN <<message>>
     ELSE <<>>

\* The messages the handler takes from params.
MessagesList(params) ==
  LET message == ParamsField(params, "message")
      messages == ParamsField(params, "messages")
  IN IF Truthy(message) THEN <<message>>
     ELSE IF Truthy(messages) /\ IsArray(messages) THEN messages.v
     ELSE <<>>

----------------------------------------------------------------------------
\* The agents registered with the Mastra instance.
Agents == {"devilsAdvocateAgent"}

\* mastra.getAgent(agentId): the agent, or for an unknown id either nothing
\* or a thrown error, as the library decides (lookup).
GetAgent(agentId, lookup) ==
  IF agentId \in Agents THEN [agent |-> Str(<<agentId>>), threw |-> FALSE, error |-> Undef]
  ELSE IF lookup = "undefined" THEN [agent |-> Undef, threw |-> FALSE, error |-> Undef]
  ELSE [agent |-> Undef, threw |-> TRUE,
        error |-> [message |-> Str(<<"Agent", "with", "name", agentId, "not", "found">>),
                   stack |-> Str(<<"at", "getAgent">>)]]

\* Mutant of JsonrpcValid: the version is checked only when it is given.
JsonrpcValidIfGiven(body) == ~Truthy(body.jsonrpc) \/ body.jsonrpc = Str(<<"2.0">>)

\* The version check of the envelope: jsonrpc !== '2.0' is its failure.
JsonrpcValid(body) == body.jsonrpc = Str(<<"2.0">>)

\* The state in which the handler has returned response r.
Returned(r, reqId, p, list, mastra, nLookups) ==
  [pc |-> "done", resp |-> r, requestId |-> reqId, params |-> p,
   messagesList |-> list, mastraMessages |-> mastra, lookups |-> nLookups, error |-> Undef]

\* The handler from the parsed body up to its return or its call of
\* agent.generate: the state it leaves.
Validate(body, agentId, lookup, env) ==
  IF BodyIsEmpty(body) THEN Returned(PlaceholderResponse, Null, Undef, <<>>, <<>>, 0)
  ELSE
    LET reqId == body.id
        p == body.params
        got == GetAgent(agentId, lookup)
        list == MessagesList(p)
        mastra == [i \in 1..Len(list) |-> ToMastraMessage(list[i])]
    IN
      IF ~JsonrpcValid(body) THEN
        Returned(JsonResponse(ErrorBody(OrElse(reqId, Null), -32600,
                   Str(<<"Invalid", "Request:", "jsonrpc", "must", "be", "2.0">>)), 400),
                 reqId, Undef, <<>>, <<>>, 0)
      ELSE IF ~Truthy(reqId) THEN
        Returned(JsonResponse(ErrorBody(Null, -32600,
                   Str(<<"Invalid", "Request:", "id", "is", "required">>)), 400),
                 reqId, Undef, <<>>, <<>>, 0)
      ELSE IF got.threw THEN
        [Returned(CatchResponse(got.error, reqId, env), reqId, Undef, <<>>, <<>>, 1)
           EXCEPT !.error = got.error]
      ELSE IF ~Truthy(got.agent) THEN
        Returned(JsonResponse(ErrorBody(reqId, -32602,
                   Str(<<"Agent", agentId, "not", "found">>)), 404),
                 reqId, Undef, <<>>, <<>>, 1)
      ELSE IF ~Truthy(p) THEN
        Returned(JsonResponse(ErrorBody(reqId, -32602,
                   Str(<<"Invalid", "params:", "params", "object", "is", "required">>)), 400),
                 reqId, Undef, <<>>, <<>>, 1)
      ELSE IF Len(list) = 0 THEN
        Returned(JsonResponse(ErrorBody(reqId, -32602,
                   Str(<<"Invalid", "params:", "message", "or", "messages", "array", "is", "required">>)), 400),
                 reqId, p, list, <<>>, 1)
      ELSE IF \A i \in 1..Len(mastra) : EmptyContent(mastra[i]) THEN
        Returned(JsonResponse(ErrorBody(reqId, -32602,
                   Str(<<"Invalid", "params:", "message", "content", "cannot", "be", "empty">>)), 400),
                 reqId, p, list, mastra, 1)
      ELSE
        [pc |-> "generate", resp |-> NoResponse, requestId |-> reqId, params |-> p,
         messagesList |-> list, mastraMessages |-> mastra, lookups |-> 1, error |-> Undef]

----------------------------------------------------------------------------
\* The handler after agent.generate resolved.

\* The callback that normalizes one part of an inbound message.
NormalizePart(part) ==
  Part(OrElse(part.kind, Str(<<"text">>)), OrElse(part.text, Null),
       OrElse(part.data, Null), OrElse(part.file_url, Null))

\* msg.parts || [{ kind: 'text', text: msg.content || '' }]
PartsOrDefault(msg) ==
  OrElse(msg.parts, Arr(<<Part(Str(<<"text">>), OrElse(msg.content, Str(<<>>)), Undef, Undef)>>))

\* The messages among the first n that carry no messageId of their own.
MissingIds(list, n) == Cardinality({j \in 1..n : ~Truthy(list[j].messageId)})

\* Mutant of HistoryEntry: the first message gets a taskId like the others.
HistoryEntryTaskIdFirst(list, index, finalTaskId, nBefore) ==
  LET msg == list[index + 1]
      ps == PartsOrDefault(msg).v
  IN [kind |-> Str(<<"message">>),
      role |-> OrElse(msg.role, Str(<<"user">>)),
      parts |-> [i \in 1..Len(ps) |-> NormalizePart(ps[i])],
      messageId |-> OrElse(msg.messageId, RandomUUID(nBefore + MissingIds(list, index + 1))),
      taskId |-> OrElse(msg.taskId, finalTaskId),
      metadata |-> OrElse(msg.metadata, Null)]

\* The history entry of the inbound message at (0-based) index, given the
\* number of randomUUID() calls made before the history is built.
HistoryEntry(list, index, finalTaskId, nBefore) ==
  LET msg == list[index + 1]
      ps == PartsOrDefault(msg).v
  IN [kind |-> Str(<<"message">>),
      role |-> OrElse(msg.role, Str(<<"user">>)),
      parts |-> [i \in 1..Len(ps) |-> NormalizePart(ps[i])],
      messageId |-> OrElse(msg.messageId, RandomUUID(nBefore + MissingIds(list, index + 1))),
      taskId |-> IF index = 0 THEN Null ELSE OrElse(msg.taskId, finalTaskId),
      metadata |-> OrElse(msg.metadata, Null)]

\* .map on msg.parts || [...] throws a TypeError when parts is not an array.
HistoryThrows(list) ==
  \E i \in 1..Len(list) : Truthy(list[i].parts) /\ ~IsArray(list[i].parts)

MapTypeError ==
  [message |-> Str(<<"msg.parts.map", "is", "not", "a", "function">>),
   stack |-> Str(<<"at", "handler">>)]

\* Mutant of HasToolResults: the length test is left out.
HasToolResultsNoLength(response) == Truthy(response.toolResults)

\* response.toolResults && response.toolResults.length > 0
HasToolResults(response) ==
  Truthy(response.toolResults) /\ Len(response.toolResults.v) > 0

\* The artifacts array of the success response.
Artifacts(agentId, agentText, response, nBefore) ==
  IF HasToolResults(response)
  THEN <<[artifactId |-> RandomUUID(nBefore + 1),
          name |-> Str(<<agentId, "Response">>),
          parts |-> <<TextPart(agentText)>>],
         [artifactId |-> RandomUUID(nBefore + 2),
          name |-> Str(<<"ToolResults">>),
          parts |-> [i \in 1..Len(response.toolResults.v) |->
                       Part(Str(<<"data">>), Null, response.toolResults.v[i], Null)]]>>
  ELSE <<[artifactId |-> RandomUUID(nBefore + 1),
          name |-> Str(<<agentId, "Response">>),
          parts |-> <<TextPart(agentText)>>]>>

\* Mutant of History: the agent's reply is put first.
HistoryReplyFirst(list, agentText, finalTaskId, nBefore) ==
  <<AgentMessage(agentText, RandomUUID(nBefore + MissingIds(list, Len(list)) + 1),
                 finalTaskId)>>
    \o [i \in 1..Len(list) |-> HistoryEntry(list, i - 1, finalTaskId, nBefore)]

\* The history array of the success response.
History(list, agentText, finalTaskId, nBefore) ==
  [i \in 1..Len(list) |-> HistoryEntry(list, i - 1, finalTaskId, nBefore)]
    \o <<AgentMessage(agentText, RandomUUID(nBefore + MissingIds(list, Len(list)) + 1),
                      finalTaskId)>>

\* Mutant of AgentText: the default '' is left out.
AgentTextNoDefault(response) == response.text

\* response.text || ''
AgentText(response) == OrElse(response.text, Str(<<>>))

\* The success response built from the agent's response.
SuccessResponse(response, agentId, reqId, p, list) ==
  LET agentText == AgentText(response)
      taskId == ParamsField(p, "taskId")
      contextId == ParamsField(p, "contextId")
      finalTaskId == OrElse(taskId, RandomUUID(1))
      n1 == IF Truthy(taskId) THEN 0 ELSE 1
      finalContextId == OrElse(contextId, RandomUUID(n1 + 1))
      n2 == IF Truthy(contextId) THEN n1 ELSE n1 + 1
      artifacts == Artifacts(agentId, agentText, response, n2)
      n3 == n2 + Len(artifacts)
      history == History(list, agentText, finalTaskId, n3)
      n4 == n3 + MissingIds(list, Len(list)) + 1
  IN JsonResponse(
       [jsonrpc |-> Str(<<"2.0">>),
        id |-> reqId,
        result |->
          [id |-> finalTaskId,
           contextId |-> finalContextId,
           status |->
             [state |-> Str(<<"completed">>),
              message |-> AgentMessage(agentText, RandomUUID(n4 + 1), finalTaskId)],
           artifacts |-> artifacts,
           history |-> history,
           kind |-> Str(<<"task">>)],
        error |-> Null],
       200)

----------------------------------------------------------------------------
\* The requests, agent responses and failures the model draws from.

SeqsUpTo(S, n) == UNION {[1..k -> S] : k \in 0..n}

TextKind == Str(<<"text">>)
DataKind == Str(<<"data">>)

\* A datum that is an array of history-like items, carried by the texts of
\* its entries: a markup entry, a text entry and a markup entry.
HistoryData == Arr(<< <<"<", "p", ">">>, <<"h", "i">>, <<"<", "b", ">">> >>)

PartSet ==
  {Part(TextKind, t, Undef, Undef) : t \in {Undef, Str(<<"a">>), Str(<<" ">>)}}
    \cup {Part(DataKind, Undef, d, Undef) :
            d \in {Str(<<"b">>), Obj(<<"k">>), Num(<<"7">>), HistoryData}}
    \cup {Part(Str(<<"file">>), Undef, Undef, Str(<<"f">>))}

PartsValues == {Undef, Obj(<<"k">>)} \cup {Arr(ps) : ps \in SeqsUpTo(PartSet, MaxParts)}

ContentValues == {Undef, Str(<<"c">>), Str(<<" ">>)}

\* Messages that vary in parts and content.
DetailedMsgs == {Msg(Undef, ps, c, Undef, Undef) : ps \in PartsValues, c \in ContentValues}

\* Messages that vary in role and identifiers.
PlainMsgs ==
  {Msg(m[1], b[1], b[2], m[2], m[3]) :
     m \in {<<Undef, Undef, Undef>>,
            <<Str(<<"agent">>), Str(<<"m", "1">>), Str(<<"t", "2">>)>>,
            <<Str(<<"user">>), Undef, Undef>>},
     b \in {<<Arr(<<Part(TextKind, Str(<<"a">>), Undef, Undef)>>), Undef>>,
            <<Undef, Str(<<"c">>)>>,
            <<Undef, Undef>>}}

MsgA == Msg(Undef, Undef, Str(<<"c">>), Undef, Undef)
MsgB == Msg(Str(<<"agent">>), Arr(<<Part(DataKind, Undef, Obj(<<"k">>), Undef)>>), Undef,
            Undef, Str(<<"t", "2">>))
MsgC == Msg(Str(<<"user">>), Undef, Str(<<"c">>), Str(<<"m", "1">>), Undef)

ParamsSet ==
  {Params(m, Undef, Undef, Undef) : m \in DetailedMsgs}
    \cup {Params(Undef, Arr(l), Undef, Undef) : l \in SeqsUpTo(PlainMsgs, MaxMsgs)}
    \cup {Params(m, ms, c, t) :
            m \in {Undef, MsgA},
            ms \in {Undef, Obj(<<"k">>), Arr(<<>>), Arr(<<MsgB>>), Arr(<<MsgB, MsgC>>)},
            c \in {Undef, Str(<<"c", "1">>)},
            t \in {Undef, Str(<<"t", "1">>)}}

JsonrpcValues == {Undef, Str(<<"2.0">>), Str(<<"1.0">>)}
IdValues == {Undef, Str(<<"r", "1">>), Str(<<>>)}
MethodValues == {Undef, Str(<<"message/send">>)}

\* Bodies that vary in the envelope.
EnvelopeBodies ==
  {Body(j, i, m, p) :
     j \in JsonrpcValues, i \in IdValues, m \in MethodValues,
     p \in {Undef, Str(<<"x">>), Params(Undef, Undef, Undef, Undef),
            Params(MsgA, Undef, Undef, Undef)}}

\* Bodies with a valid envelope that vary in params.
ParamBodies ==
  {Body(Str(<<"2.0">>), Str(<<"r", "1">>), Str(<<"message/send">>), p) : p \in ParamsSet}

\* What c.req.json() does: it resolves to the parsed value or rejects.
Parsed(value) == [ok |-> TRUE, value |-> value]
Malformed == [ok |-> FALSE, value |-> Undef]

AgentIds == Agents \cup {"ghost"}

Requests ==
  {[agentId |-> a, json |-> j] :
     a \in AgentIds,
     j \in {Malformed, Parsed(Null), Parsed(Num(<<"5">>))} \cup {Parsed(b) : b \in EnvelopeBodies}}
    \cup {[agentId |-> a, json |-> Parsed(b)] : a \in Agents, b \in ParamBodies}

ToolResult == Obj(<<"toolName">>)

\* What agent.generate resolves to.
Responses ==
  {[text |-> t, toolResults |-> r] :
     t \in {Undef, Str(<<"o", "k">>)},
     r \in {Undef} \cup {Arr([i \in 1..k |-> ToolResult]) : k \in 0..MaxTools}}

\* What agent.generate rejects with.
GenerateErrors ==
  {[message |-> m, stack |-> Str(<<"at", "generate">>)] :
     m \in {Undef,
            Str(<<"Agent", "stream", "failed">>),
            Str(<<"tool", "call", "failed">>),
            Str(<<"quota", "exceeded">>)}}

NodeEnvs == {"production", "development", "undefined"}

----------------------------------------------------------------------------
\* The competitor search tool of src/mastra/tools/competitorSearchTool.ts.

\* The length the content of a result is cut to.
MaxContent == 500

\* A text of n characters.
TextOfLength(n) == [i \in 1..n |-> "x"]

\* x ?? y
Nullish(x, y) == IF x.t \in {"undef", "null"} THEN y ELSE x

\* String.prototype.slice(0, n)
SliceTo(s, n) == IF Len(s) <= n THEN s ELSE SubSeq(s, 1, n)

\* An Error with this message, and a thrown value that is no Error.
ErrorOf(message) == [isError |-> TRUE, message |-> message]
NonError(value) == [isError |-> FALSE, message |-> value]

SearchResult(title, url, text) ==
  [title |-> title, url |-> url, text |-> text, publishedDate |-> Undef]

\* Mutant of MapResult: the content is not cut.
MapResultNoSlice(result) ==
  [title |-> OrElse(result.title, Null),
   url |-> OrElse(result.url, Str(<<>>)),
   content |-> Str(Nullish(result.text, Str(<<>>)).v),
   publishedDate |-> result.publishedDate]

\* The callback of results.map.
MapResult(result) ==
  [title |-> OrElse(result.title, Null),
   url |-> OrElse(result.url, Str(<<>>)),
   content |-> Str(SliceTo(Nullish(result.text, Str(<<>>)).v, MaxContent)),
   publishedDate |-> result.publishedDate]

\* The callback of .filter: result => result.url
HasUrl(result) == Truthy(result.url)

\* results.map(...).filter(...)
MapResults(results) == SelectSeq([i \in 1..Len(results) |-> MapResult(results[i])], HasUrl)

\* !context.query || typeof context.query !== 'string'
InvalidQuery(query) == ~Truthy(query) \/ TypeOf(query) # "string"

\* !results || !Array.isArray(results)
InvalidResults(results) == ~Truthy(results) \/ ~IsArray(results)

\* The error the catch block of execute throws for the error it caught.
Rethrown(e) ==
  IF e.isError THEN
    IF Includes(e.message, "API key") \/ Includes(e.message, "authentication")
    THEN ErrorOf(<<"Authentication", "failed", "with", "Exa", "API:">> \o e.message)
    ELSE IF Includes(e.message, "rate limit")
    THEN ErrorOf(<<"Rate", "limit", "exceeded", "with", "Exa", "API:">> \o e.message)
    ELSE IF Includes(e.message, "network")
    THEN ErrorOf(<<"Network", "error", "with", "Exa", "API:">> \o e.message)
    ELSE ErrorOf(<<"Failed", "to", "search", "competitors:">> \o e.message)
  ELSE ErrorOf(<<"Unknown", "error", "occurred", "while", "searching", "competitors:">>
                 \o e.message)

InvalidQueryError ==
  ErrorOf(<<"Invalid", "query", "parameter:", "query", "must", "be", "a", "non-empty", "string">>)

InvalidResponseError ==
  ErrorOf(<<"Invalid", "response", "from", "Exa", "API:", "results", "array", "expected">>)

\* What execute returns (ok) or throws.
Returns(value) == [ok |-> TRUE, value |-> value, error |-> Undef]
Throws(e) == [ok |-> FALSE, value |-> <<>>, error |-> e]
NoOutput == [ok |-> FALSE, value |-> <<>>, error |-> Undef]

\* execute after exa.search resolved with results.
AfterSearch(results) ==
  IF InvalidResults(results) THEN Throws(Rethrown(InvalidResponseError))
  ELSE Returns(MapResults(results.v))

QueryValues == {Undef, Num(<<"5">>), Str(<<>>), Str(<<"q">>), Str(<<"q", "2">>)}

SearchResults ==
  {SearchResult(t, u, x) :
     t \in {Undef, Str(<<>>), Str(<<"T">>)},
     u \in {Undef, Str(<<"u", "1">>), Str(<<"u", "2">>)},
     x \in {Undef, Str(<<"s">>), Str(TextOfLength(MaxContent + 1))}}

\* The results field of what exa.search resolves to.
ProviderResults ==
  {Undef, Obj(<<"k">>)} \cup {Arr(l) : l \in SeqsUpTo(SearchResults, MaxResults)}

\* What exa.search rejects with.
SearchErrors ==
  {ErrorOf(m) : m \in {<<"invalid", "API key">>, <<"rate limit", "reached">>,
                        <<"network", "unreachable">>, <<"server", "error">>}}
    \cup {NonError(<<"timeout">>)}

----------------------------------------------------------------------------
\* The handler as a state machine: one request at a time, with a step at
\* each await.

VARIABLES pc, nodeEnv, req, requestId, params, messagesList, mastraMessages,
          response, error, resp, lookups, invocations

vars == <<pc, nodeEnv, req, requestId, params, messagesList, mastraMessages,
          response, error, resp, lookups, invocations>>

\* The state of one execution of the search tool.
VARIABLES toolPc, context, searchCalls, searchResults, toolOutput

toolVars == <<toolPc, context, searchCalls, searchResults, toolOutput>>

\* The search tool is not executing.
ToolIdle ==
  /\ toolPc = "idle"
  /\ context = [query |-> Undef]
  /\ searchCalls = 0
  /\ searchResults = Undef
  /\ toolOutput = NoOutput

NoRequest == [agentId |-> "", json |-> Malformed]

Init ==
  /\ pc = "idle"
  /\ nodeEnv \in NodeEnvs
  /\ req = NoRequest
  /\ requestId = Null
  /\ params = Undef
  /\ messagesList = <<>>
  /\ mastraMessages = <<>>
  /\ response = Undef
  /\ error = Undef
  /\ resp = NoResponse
  /\ lookups = 0
  /\ invocations = 0
  /\ ToolIdle

\* A POST arrives: the handler starts and awaits c.req.json().
Receive ==
  /\ pc = "idle"
  /\ \E r \in Requests : req' = r
  /\ pc' = "json"
  /\ requestId' = Null
  /\ params' = Undef
  /\ messagesList' = <<>>
  /\ mastraMessages' = <<>>
  /\ response' = Undef
  /\ error' = Undef
  /\ resp' = NoResponse
  /\ lookups' = 0
  /\ invocations' = 0
  /\ UNCHANGED nodeEnv
  /\ UNCHANGED toolVars

\* Mutant of GenerateCalls: the agent is invoked before the validation.
GenerateCallsEager(nextPc) == 1

\* The calls of agent.generate the handler has made when it leaves the
\* validation for nextPc: one, made after the last check.
GenerateCalls(nextPc) == IF nextPc = "generate" THEN 1 ELSE 0

\* The body of the request as the handler sees it.
ParsedBody(r) == IF r.json.ok THEN r.json.value ELSE EmptyObject

\* The body is parsed; the handler validates and either returns a response
\* or calls agent.generate.
AfterJson ==
  /\ pc = "json"
  /\ \E lookup \in {"undefined", "throws"} :
       LET st == Validate(ParsedBody(req), req.agentId, lookup, nodeEnv)
       IN /\ pc' = st.pc
          /\ requestId' = st.requestId
          /\ params' = st.params
          /\ messagesList' = st.messagesList
          /\ mastraMessages' = st.mastraMessages
          /\ error' = st.error
          /\ resp' = st.resp
          /\ lookups' = st.lookups
          /\ invocations' = GenerateCalls(st.pc)
  /\ UNCHANGED <<nodeEnv, req, response>>
  /\ UNCHANGED toolVars

\* agent.generate resolves: the handler builds the task, or throws while
\* building the history.
GenerateResolves ==
  /\ pc = "generate"
  /\ \E r \in Responses :
       /\ response' = r
       /\ error' = IF HistoryThrows(messagesList) THEN MapTypeError ELSE Undef
       /\ resp' = IF HistoryThrows(messagesList)
                  THEN CatchResponse(MapTypeError, requestId, nodeEnv)
                  ELSE SuccessResponse(r, req.agentId, requestId, params, messagesList)
  /\ pc' = "done"
  /\ UNCHANGED <<nodeEnv, req, requestId, params, messagesList, mastraMessages,
                 lookups, invocations>>
  /\ UNCHANGED toolVars

\* agent.generate rejects: the catch block answers.
GenerateRejects ==
  /\ pc = "generate"
  /\ \E e \in GenerateErrors :
       /\ error' = e
       /\ resp' = CatchResponse(e, requestId, nodeEnv)
  /\ pc' = "done"
  /\ UNCHANGED <<nodeEnv, req, requestId, params, messagesList, mastraMessages,
                 response, lookups, invocations>>
  /\ UNCHANGED toolVars

\* The response is sent and the handler's run ends.
Finish ==
  /\ pc = "done"
  /\ pc' = "idle"
  /\ req' = NoRequest
  /\ requestId' = Null
  /\ params' = Undef
  /\ messagesList' = <<>>
  /\ mastraMessages' = <<>>
  /\ response' = Undef
  /\ error' = Undef
  /\ resp' = NoResponse
  /\ lookups' = 0
  /\ invocations' = 0
  /\ UNCHANGED nodeEnv
  /\ UNCHANGED toolVars

Next == Receive \/ AfterJson \/ GenerateResolves \/ GenerateRejects \/ Finish

Spec == Init /\ [][Next]_<<vars, toolVars>>

----------------------------------------------------------------------------
\* One execution of the search tool at a time, with a step at the await of
\* exa.search.

\* No request is being handled.
HandlerIdle ==
  /\ pc = "idle"
  /\ nodeEnv = "production"
  /\ req = NoRequest
  /\ requestId = Null
  /\ params = Undef
  /\ messagesList = <<>>
  /\ mastraMessages = <<>>
  /\ response = Undef
  /\ error = Undef
  /\ resp = NoResponse
  /\ lookups = 0
  /\ invocations = 0

SearchInit == HandlerIdle /\ ToolIdle

\* execute starts: it validates the query and throws, or calls exa.search.
Execute ==
  /\ toolPc = "idle"
  /\ \E q \in QueryValues :
       /\ context' = [query |-> q]
       /\ toolPc' = IF InvalidQuery(q) THEN "done" ELSE "search"
       /\ searchCalls' = IF InvalidQuery(q) THEN 0 ELSE 1
       /\ toolOutput' = IF InvalidQuery(q) THEN Throws(Rethrown(InvalidQueryError)) ELSE NoOutput
  /\ searchResults' = Undef
  /\ UNCHANGED vars

\* exa.search resolves: execute checks the results and returns them mapped.
SearchResolves ==
  /\ toolPc = "search"
  /\ \E r \in ProviderResults :
       /\ searchResults' = r
       /\ toolOutput' = AfterSearch(r)
  /\ toolPc' = "done"
  /\ UNCHANGED <<context, searchCalls>>
  /\ UNCHANGED vars

\* exa.search rejects: the catch block throws its own error.
SearchRejects ==
  /\ toolPc = "search"
  /\ \E e \in SearchErrors : toolOutput' = Throws(Rethrown(e))
  /\ toolPc' = "done"
  /\ UNCHANGED <<context, searchCalls, searchResults>>
  /\ UNCHANGED vars

\* The execution is over.
ToolFinish ==
  /\ toolPc = "done"
  /\ toolPc' = "idle"
  /\ context' = [query |-> Undef]
  /\ searchCalls' = 0
  /\ searchResults' = Undef
  /\ toolOutput' = NoOutput
  /\ UNCHANGED vars

SearchNext == Execute \/ SearchResolves \/ SearchRejects \/ ToolFinish

SearchSpec == SearchInit /\ [][SearchNext]_<<vars, toolVars>>

----------------------------------------------------------------------------
\* What the properties read.

\* The handler has returned a response.
Done == pc = "done"

\* The parsed body of the request is an object with at least one key.
NonEmptyBody ==
  /\ req.json.ok
  /\ req.json.value.t = "body"
  /\ \E k \in {"jsonrpc", "id", "method", "params"} : req.json.value[k] # Undef

\* The request carries jsonrpc "2.0" and a usable id.
ValidEnvelope ==
  /\ NonEmptyBody
  /\ req.json.value.jsonrpc = Str(<<"2.0">>)
  /\ req.json.value.id.t = "str"
  /\ req.json.value.id.v # <<>>

KnownAgent == req.agentId \in Agents

\* The response is a JSON-RPC error with this code.
IsErrorWith(code) ==
  /\ "result" \notin DOMAIN resp.body
  /\ "error" \in DOMAIN resp.body
  /\ resp.body.error.code = code

\* The response is a success response (a task).
IsSuccess ==
  /\ resp.status = 200
  /\ "result" \in DOMAIN resp.body
  /\ resp.body.error = Null

\* A string of whitespace only (the empty string included).
Blank(x) == x.t = "str" /\ \A i \in 1..Len(x.v) : x.v[i] \in {" ", "\n", "\t"}

----------------------------------------------------------------------------
\* C1: a POST whose body cannot be parsed as JSON is answered like an empty
\* object: HTTP 200, id null, error null, a completed task whose status
\* message has role 'agent' and the single text part 'No message provided',
\* empty artifacts and history, with no agent looked up or invoked.
C1_MalformedBodyPlaceholder ==
  (Done /\ ~req.json.ok) =>
    /\ resp.status = 200
    /\ resp.body.id = Null
    /\ resp.body.error = Null
    /\ resp.body.result.status.state = Str(<<"completed">>)
    /\ resp.body.result.status.message.role = Str(<<"agent">>)
    /\ Len(resp.body.result.status.message.parts) = 1
    /\ resp.body.result.status.message.parts[1].kind = Str(<<"text">>)
    /\ resp.body.result.status.message.parts[1].text = Str(<<"No", "message", "provided">>)
    /\ resp.body.result.artifacts = <<>>
    /\ resp.body.result.history = <<>>
    /\ resp = Validate(EmptyObject, req.agentId, "undefined", nodeEnv).resp
    /\ lookups = 0
    /\ invocations = 0

C1_Witness == Done /\ ~req.json.ok /\ resp.status = 200 /\ req.agentId \notin Agents

\* C2: for a non-empty body the envelope checks apply in order and the first
\* failing one is reported: a jsonrpc other than "2.0" gives -32600 whatever
\* the id, agent and params; else a missing id gives -32600 with id null;
\* else, for a known agent, missing params give -32602.
C2_EnvelopeChecksInOrder ==
  (Done /\ NonEmptyBody) =>
    LET body == req.json.value
    IN IF body.jsonrpc # Str(<<"2.0">>) THEN IsErrorWith(-32600)
       ELSE IF ~Truthy(body.id) THEN IsErrorWith(-32600) /\ resp.body.id = Null
       ELSE (KnownAgent /\ ~Truthy(body.params)) => IsErrorWith(-32602)

\* The version check fails although id and params are missing and the agent
\* is unknown.
C2_Witness ==
  /\ Done
  /\ NonEmptyBody
  /\ req.json.value.jsonrpc = Undef
  /\ req.json.value.id = Undef
  /\ req.json.value.params = Undef
  /\ ~KnownAgent
  /\ IsErrorWith(-32600)

\* C3: a valid envelope that names an unregistered agent is answered with
\* error -32602 and HTTP 404, whether the lookup returned nothing or threw,
\* and before the params are looked at.
C3_UnknownAgent404 ==
  (Done /\ ValidEnvelope /\ ~KnownAgent) => (IsErrorWith(-32602) /\ resp.status = 404)

\* Neither params.message nor a non-empty params.messages array is given.
NoMessageGiven ==
  LET p == req.json.value.params
  IN \/ p.t # "params"
     \/ /\ ~Truthy(p.message)
        /\ (p.messages.t # "arr" \/ p.messages.v = <<>>)

\* Every converted message has empty or whitespace-only content.
AllContentBlank ==
  /\ Len(mastraMessages) > 0
  /\ \A i \in 1..Len(mastraMessages) : Blank(mastraMessages[i].content)

\* C4: with a valid envelope, a known agent and params, the request is
\* rejected with -32602 and the agent is not invoked when no message is
\* given or every message's content is empty or whitespace.
C4_NoMessageTextRejected ==
  (/\ pc \in {"generate", "done"}
   /\ ValidEnvelope
   /\ KnownAgent
   /\ Truthy(req.json.value.params)
   /\ (NoMessageGiven \/ AllContentBlank))
    => (Done /\ IsErrorWith(-32602) /\ invocations = 0)

\* A message of whitespace content is rejected.
C4_Witness ==
  /\ Done
  /\ ValidEnvelope
  /\ KnownAgent
  /\ AllContentBlank
  /\ \E i \in 1..Len(mastraMessages) : mastraMessages[i].content.v # <<>>
  /\ IsErrorWith(-32602)

\* agent.generate was called and rejected.
GenerateFailed == Done /\ invocations = 1 /\ response = Undef /\ error # Undef

\* C5: any failure of agent.generate, whatever its message, is answered with
\* error -32603 and HTTP 500 under the id of the request.
C5_GenerateFailureIsInternalError ==
  GenerateFailed =>
    (IsErrorWith(-32603) /\ resp.status = 500 /\ resp.body.id = req.json.value.id)


\* C6: the stack of an internal error is included only outside production
\* mode: in production no response carries it.
C6_NoStackInProduction ==
  (Done /\ nodeEnv = "production" /\ "error" \in DOMAIN resp.body /\ resp.body.error # Null)
    => ("data" \in DOMAIN resp.body.error => resp.body.error.data.stack = Undef)

\* In production a failure that has a stack is answered.
C6_Witness ==
  /\ Done
  /\ nodeEnv = "production"
  /\ resp.status = 500
  /\ error # Undef
  /\ Truthy(error.stack)
  /\ resp.body.error.data.stack = Undef

\* The handler answered with a task after invoking the agent.
SuccessAfterAgent == Done /\ invocations = 1 /\ IsSuccess

\* The reply text of the agent: its text, or '' when it returned none.
ReplyText == IF response.text.t = "str" THEN response.text ELSE Str(<<>>)

\* parts is the single text part that carries text.
SingleTextPart(parts, text) ==
  /\ Len(parts) = 1
  /\ parts[1].kind = Str(<<"text">>)
  /\ parts[1].text = text

\* C7: a success response to a request that reached the agent is a completed
\* task whose status message has role 'agent' and one text part, the reply
\* text ('' if the agent returned none); the first artifact and the last
\* history entry carry the same single text part.
C7_ReplyTextEverywhere ==
  SuccessAfterAgent =>
    LET result == resp.body.result
    IN /\ result.kind = Str(<<"task">>)
       /\ result.status.state = Str(<<"completed">>)
       /\ result.status.message.role = Str(<<"agent">>)
       /\ SingleTextPart(result.status.message.parts, ReplyText)
       /\ Len(result.artifacts) >= 1
       /\ SingleTextPart(result.artifacts[1].parts, ReplyText)
       /\ Len(result.history) >= 1
       /\ SingleTextPart(result.history[Len(result.history)].parts, ReplyText)

\* The agent returned no text and the task carries ''.
C7_Witness ==
  /\ SuccessAfterAgent
  /\ response.text = Undef
  /\ resp.body.result.status.message.parts[1].text = Str(<<>>)

\* The number of tool results of the agent run.
ToolResultCount == IF response.toolResults.t = "arr" THEN Len(response.toolResults.v) ELSE 0

\* C8 as stated: with k tool results the artifacts array has 1 + k entries.
C8_OneArtifactPerToolResult ==
  SuccessAfterAgent => Len(resp.body.result.artifacts) = 1 + ToolResultCount

\* C8 amended: the artifacts array holds the text artifact with the reply
\* and, when the run produced k > 0 tool results, one more artifact,
\* 'ToolResults', with k data parts, one per tool result in order: 1 entry
\* when k = 0, 2 entries otherwise.
C8_ToolResultsInOneArtifact ==
  SuccessAfterAgent =>
    LET artifacts == resp.body.result.artifacts
        k == ToolResultCount
    IN /\ Len(artifacts) = IF k = 0 THEN 1 ELSE 2
       /\ SingleTextPart(artifacts[1].parts, ReplyText)
       /\ k > 0 =>
            /\ artifacts[2].name = Str(<<"ToolResults">>)
            /\ Len(artifacts[2].parts) = k
            /\ \A i \in 1..k :
                 /\ artifacts[2].parts[i].kind = Str(<<"data">>)
                 /\ artifacts[2].parts[i].data = response.toolResults.v[i]

\* Two tool results end up in one artifact.
C8_Witness ==
  /\ SuccessAfterAgent
  /\ ToolResultCount = 2
  /\ Len(resp.body.result.artifacts) = 2

\* C9: the history of a success response has n + 1 entries for n inbound
\* messages: the inbound messages in their order with their roles (default
\* 'user') and parts of exactly the fields kind, text, data, file_url, then
\* the agent's reply with role 'agent'.
C9_HistoryIsTurnSequence ==
  SuccessAfterAgent =>
    LET history == resp.body.result.history
        n == Len(messagesList)
    IN /\ Len(history) = n + 1
       /\ history[n + 1].role = Str(<<"agent">>)
       /\ \A i \in 1..n :
            LET msg == messagesList[i]
            IN /\ history[i].role = (IF msg.role.t = "str" THEN msg.role ELSE Str(<<"user">>))
               /\ msg.messageId.t = "str" => history[i].messageId = msg.messageId
               /\ \A j \in 1..Len(history[i].parts) :
                    DOMAIN history[i].parts[j] = {"kind", "text", "data", "file_url"}
               /\ msg.parts.t = "arr" =>
                    /\ Len(history[i].parts) = Len(msg.parts.v)
                    /\ \A j \in 1..Len(msg.parts.v) :
                         /\ history[i].parts[j].kind = msg.parts.v[j].kind
                         /\ Truthy(msg.parts.v[j].text) =>
                              history[i].parts[j].text = msg.parts.v[j].text
                         /\ Truthy(msg.parts.v[j].data) =>
                              history[i].parts[j].data = msg.parts.v[j].data
               /\ msg.parts.t # "arr" =>
                    /\ Len(history[i].parts) = 1
                    /\ history[i].parts[1].kind = Str(<<"text">>)
                    /\ Truthy(msg.content) => history[i].parts[1].text = msg.content

\* Two inbound messages of different roles are followed by the reply.
C9_Witness ==
  /\ SuccessAfterAgent
  /\ Len(messagesList) = 2
  /\ messagesList[1].role = Str(<<"agent">>)
  /\ messagesList[2].role = Undef
  /\ Len(resp.body.result.history) = 3
  /\ resp.body.result.history[1].role = Str(<<"agent">>)
  /\ resp.body.result.history[2].role = Str(<<"user">>)


\* The fragment one part contributes, as C10 describes it; a number datum is
\* stringified to its digits when numbers is TRUE and contributes nothing
\* otherwise.
DescribedFragment(part, numbers) ==
  IF part.kind = Str(<<"text">>)
  THEN IF part.text.t = "str" THEN part.text.v ELSE <<>>
  ELSE IF part.kind = Str(<<"data">>)
  THEN CASE part.data.t = "str" -> part.data.v
         [] part.data.t \in {"obj", "arr", "null"} -> JSONStringify(part.data)
         [] part.data.t = "num" -> IF numbers THEN part.data.v ELSE <<>>
         [] OTHER -> <<>>
  ELSE <<>>

RECURSIVE DescribedFlattening(_, _)
\* The non-empty fragments of the parts, in part order, joined by newlines.
DescribedFlattening(parts, numbers) ==
  IF parts = <<>> THEN <<>>
  ELSE LET first == DescribedFragment(Head(parts), numbers)
           rest == DescribedFlattening(Tail(parts), numbers)
       IN IF first = <<>> THEN rest
          ELSE IF rest = <<>> THEN first
          ELSE first \o <<"\n">> \o rest

\* The content C10 describes for one inbound message.
DescribedContent(msg, numbers) ==
  LET flat == IF msg.parts.t = "arr" THEN DescribedFlattening(msg.parts.v, numbers) ELSE <<>>
  IN IF flat # <<>> THEN Str(flat)
     ELSE IF msg.content.t = "str" THEN msg.content
     ELSE Str(<<>>)

\* The inbound messages have been converted.
Converted == Len(mastraMessages) > 0 /\ Len(mastraMessages) = Len(messagesList)

\* C10 as stated: the content of a message is the newline-joined non-empty
\* fragments of its parts, every data part stringified (a number to its
\* digits), and falls back to the raw content field, else ''.
C10_FlatteningStringifiesAllData ==
  Converted =>
    \A i \in 1..Len(messagesList) :
      mastraMessages[i].content = DescribedContent(messagesList[i], TRUE)

\* C10 amended: the content of a message is the newline-joined non-empty
\* fragments of its parts, in part order: the text of a text part, a string
\* datum as it is, an object datum as its JSON text, and nothing for a datum
\* of another type such as a number; when that is empty or there is no parts
\* array it is the raw content field, else ''.
C10_FlatteningOfParts ==
  Converted =>
    \A i \in 1..Len(messagesList) :
      mastraMessages[i].content = DescribedContent(messagesList[i], FALSE)

\* A text part and an object part are joined by one newline and passed to
\* the agent.
C10_Witness ==
  /\ pc = "generate"
  /\ Len(messagesList) = 1
  /\ messagesList[1].parts.t = "arr"
  /\ Len(messagesList[1].parts.v) = 2
  /\ messagesList[1].parts.v[2].data.t = "obj"
  /\ messagesList[1].content = Str(<<"c">>)
  /\ mastraMessages[1].content =
       Str(<<"a", "\n", "{", "\"", "k", "\"", ":", "1", "}">>)


\* An entry of a history-like array that is long enough and no markup.
TextEntry(e) == Len(e) > 1 /\ Head(e) # "<"

RECURSIVE LastTextEntry(_)
\* The last entry of the array that is long enough and no markup, <<>> if
\* there is none.
LastTextEntry(entries) ==
  IF entries = <<>> THEN <<>>
  ELSE IF TextEntry(entries[Len(entries)]) THEN entries[Len(entries)]
  ELSE LastTextEntry(SubSeq(entries, 1, Len(entries) - 1))

\* The message consists of one data part whose data is an array with a text
\* entry.
OnlyHistoryData(msg) ==
  /\ msg.parts.t = "arr"
  /\ Len(msg.parts.v) = 1
  /\ msg.parts.v[1].kind = Str(<<"data">>)
  /\ msg.parts.v[1].data.t = "arr"
  /\ LastTextEntry(msg.parts.v[1].data.v) # <<>>

\* C11: a data part whose data is an array of history-like items contributes
\* only the last sufficiently long, non-markup text entry of the array to
\* the content, not the JSON text of the whole array.
C11_ArrayDataContributesLastEntry ==
  Converted =>
    \A i \in 1..Len(messagesList) :
      OnlyHistoryData(messagesList[i]) =>
        /\ mastraMessages[i].content = Str(LastTextEntry(messagesList[i].parts.v[1].data.v))
        /\ mastraMessages[i].content # Str(JSONStringify(messagesList[i].parts.v[1].data))


\* C12: within one request the agent is invoked at most once, only after
\* every validation check has passed, and a failure is not retried: the
\* placeholder and every validation error come with no invocation, every
\* success for a non-empty body with exactly one.
C12_AtMostOneInvocationAfterValidation ==
  /\ invocations \in {0, 1}
  /\ invocations = 1 =>
       /\ pc \in {"generate", "done"}
       /\ ValidEnvelope
       /\ KnownAgent
       /\ Truthy(req.json.value.params)
       /\ ~NoMessageGiven
       /\ ~AllContentBlank
  /\ pc = "generate" => (invocations = 1 /\ resp = NoResponse)
  /\ (Done /\ IsSuccess /\ ~NonEmptyBody) => invocations = 0
  /\ (Done /\ resp.status \in {400, 404}) => invocations = 0
  /\ (Done /\ IsSuccess /\ NonEmptyBody) => invocations = 1
  /\ GenerateFailed => resp.status = 500

\* A failed invocation is answered after that one invocation.
C12_Witness == GenerateFailed /\ invocations = 1 /\ resp.status = 500

\* C13: every response to a non-empty body carries jsonrpc '2.0' and the id
\* of the request whenever it had a usable one (version error, unknown
\* agent, params errors, success, catch block); the response id is null
\* only when the request had no usable id.
C13_ResponseEchoesId ==
  (Done /\ NonEmptyBody) =>
    LET id == req.json.value.id
        usable == id.t = "str" /\ id.v # <<>>
    IN /\ resp.body.jsonrpc = Str(<<"2.0">>)
       /\ usable => resp.body.id = id
       /\ resp.body.id = Null => ~usable

\* The version error echoes the id of the request.
C13_Witness ==
  /\ Done
  /\ NonEmptyBody
  /\ req.json.value.jsonrpc = Str(<<"1.0">>)
  /\ IsErrorWith(-32600)
  /\ resp.body.id = Str(<<"r", "1">>)

\* The value is one that randomUUID() returned.
Generated(x) == x.t = "str" /\ x.v # <<>> /\ Head(x.v) = "uuid"

C15_SingleMessageWins ==
  (pc \in {"generate", "done"} /\ invocations = 1) =>
    LET p == req.json.value.params
    IN /\ p.message # Undef =>
            /\ messagesList = <<p.message>>
            /\ Len(mastraMessages) = 1
            /\ IsSuccess => Len(resp.body.result.history) = 2
       /\ messagesList # <<p.message>> =>
            /\ p.message = Undef
            /\ p.messages.t = "arr"
            /\ messagesList = p.messages.v
            /\ Len(mastraMessages) = Len(p.messages.v)

\* The agent answered a request that carried a message and two messages.
C15_Witness ==
  /\ SuccessAfterAgent
  /\ req.json.value.params.message # Undef
  /\ req.json.value.params.messages.t = "arr"
  /\ Len(req.json.value.params.messages.v) = 2
  /\ Len(mastraMessages) = 1
  /\ Len(resp.body.result.history) = 2


\* The provider's result carries a non-empty url.
WithUrl(result) == result.url.t = "str" /\ result.url.v # <<>>

\* The query is missing or not a string.
NoStringQuery == context.query.t # "str"

\* exa.search resolved with a results array.
ResultsArray == searchResults.t = "arr"

\* C16: an execution of the search tool makes at most one search call, and
\* none when the query is missing or not a string; on success it returns the
\* provider's results that have a non-empty url, in their order, each with a
\* content of at most 500 characters and a title that is a non-empty string
\* or null; a provider response without a results array is an error.
C16_SearchToolContract ==
  /\ searchCalls \in {0, 1}
  /\ (toolPc # "idle" /\ NoStringQuery) => (searchCalls = 0 /\ toolPc = "done" /\ ~toolOutput.ok)
  /\ (toolPc = "done" /\ toolOutput.ok) =>
       /\ searchCalls = 1
       /\ ResultsArray
       /\ LET kept == SelectSeq(searchResults.v, WithUrl)
              out == toolOutput.value
          IN /\ Len(out) = Len(kept)
             /\ \A i \in 1..Len(out) :
                  /\ out[i].url = kept[i].url
                  /\ Len(out[i].content.v) <= 500
                  /\ kept[i].text.t = "str" =>
                       out[i].content.v = SubSeq(kept[i].text.v, 1, Len(out[i].content.v))
                  /\ kept[i].text.t = "str" /\ Len(kept[i].text.v) <= 500 =>
                       out[i].content = kept[i].text
                  /\ \/ out[i].title = Null
                     \/ out[i].title.t = "str" /\ out[i].title.v # <<>>
                  /\ kept[i].title.t = "str" /\ kept[i].title.v # <<>> =>
                       out[i].title = kept[i].title
  /\ (toolPc = "done" /\ searchCalls = 1 /\ searchResults # Undef /\ ~ResultsArray) =>
       ~toolOutput.ok
  /\ (toolPc = "done" /\ searchCalls = 1 /\ ResultsArray) => toolOutput.ok

\* Of two results the one without a url is dropped and the other, whose
\* text is longer than 500 characters and whose title is empty, is returned
\* cut with a null title.
C16_Witness ==
  /\ toolPc = "done"
  /\ toolOutput.ok
  /\ searchCalls = 1
  /\ Len(searchResults.v) = 2
  /\ searchResults.v[1].url = Undef
  /\ Len(searchResults.v[2].text.v) = 501
  /\ searchResults.v[2].title = Str(<<>>)
  /\ Len(toolOutput.value) = 1
  /\ Len(toolOutput.value[1].content.v) = 500
  /\ toolOutput.value[1].title = Null

====
